---- MODULE Spec2Model ----
(***************************************************************************)
(* payu.scheduler.pbs: the PBS configuration reader (pbs_env_init), the    *)
(* status fetcher (get_qstat_info under tenacity's retry, get_job_info),   *)
(* the mount matcher (find_mounts) and the qsub command builder            *)
(* (generate_command).                                                     *)
(*                                                                         *)
(* A Python str is a sequence of one-character strings, so that split,     *)
(* strip, replace, startswith and slicing are computed as Python computes  *)
(* them.  A Python dict is a function; None, exceptions and sys.exit are   *)
(* the kind of a call's outcome.                                           *)
(***************************************************************************)
EXTENDS Integers, Sequences, FiniteSets, TLC

(***************************************************************************)
(* Python str operations                                                   *)
(***************************************************************************)

\* The characters str.strip() and str.rstrip() remove.
Whitespace == {" ", "\t", "\n", "\r"}

\* str.find(sub, i) for a non-empty sub, 1-based; 0 when sub does not occur
\* at or after i.
Find(s, sub, i) ==
    LET hits == {j \in i..(Len(s) - Len(sub) + 1) :
                    s[j] = sub[1] /\ SubSeq(s, j, j + Len(sub) - 1) = sub}
    IN  IF hits = {} THEN 0 ELSE CHOOSE j \in hits : \A k \in hits : j <= k

\* `sub in s`
Contains(s, sub) == Find(s, sub, 1) # 0

\* s.startswith(pre)
StartsWith(s, pre) == Len(pre) <= Len(s) /\ SubSeq(s, 1, Len(pre)) = pre

\* s.split(sep): the pieces between the occurrences of sep, left to right.
RECURSIVE Split(_, _)
Split(s, sep) ==
    LET i == Find(s, sep, 1)
    IN  IF i = 0 THEN <<s>>
        ELSE <<SubSeq(s, 1, i - 1)>> \o Split(SubSeq(s, i + Len(sep), Len(s)), sep)

\* s.split(sep, 1): cut at the first occurrence of sep only.
SplitOnce(s, sep) ==
    LET i == Find(s, sep, 1)
    IN  IF i = 0 THEN <<s>>
        ELSE <<SubSeq(s, 1, i - 1), SubSeq(s, i + Len(sep), Len(s))>>

\* sep.join(parts)
RECURSIVE Join(_, _)
Join(parts, sep) ==
    IF parts = <<>> THEN <<>>
    ELSE IF Len(parts) = 1 THEN parts[1]
    ELSE parts[1] \o sep \o Join(Tail(parts), sep)

\* s.replace(old, new)
Replace(s, old, new) == Join(Split(s, old), new)

\* s.rstrip()
RStrip(s) ==
    LET keep == {i \in DOMAIN s : s[i] \notin Whitespace}
    IN  IF keep = {} THEN <<>>
        ELSE SubSeq(s, 1, (CHOOSE i \in keep : \A k \in keep : k <= i))

\* s.lstrip()
LStrip(s) ==
    LET keep == {i \in DOMAIN s : s[i] \notin Whitespace}
    IN  IF keep = {} THEN <<>>
        ELSE SubSeq(s, (CHOOSE i \in keep : \A k \in keep : i <= k), Len(s))

\* s.strip()
Strip(s) == LStrip(RStrip(s))

\* s[:n]
Slice(s, n) == SubSeq(s, 1, IF Len(s) < n THEN Len(s) ELSE n)

\* dict(pairs): a later pair with the same key replaces an earlier one.
RECURSIVE DictOf(_)
DictOf(pairs) ==
    IF pairs = <<>> THEN <<>>
    ELSE LET d    == DictOf(SubSeq(pairs, 1, Len(pairs) - 1))
             last == pairs[Len(pairs)]
         IN  [k \in (DOMAIN d) \cup {last[1]} |->
                 IF k = last[1] THEN last[2] ELSE d[k]]

\* d.get(key, default)
Get(d, key, default) == IF key \in DOMAIN d THEN d[key] ELSE default

\* d[key] = value
Put(d, key, value) ==
    [k \in (DOMAIN d) \cup {key} |-> IF k = key THEN value ELSE d[k]]

(***************************************************************************)
(* get_qstat_info: the parse of one qstat output (lines 94-109)            *)
(***************************************************************************)

\* An optional list argument: given = FALSE is Python's None.
NoneList == [given |-> FALSE, items |-> <<>>]
ListOf(items) == [given |-> TRUE, items |-> items]

\* bool(l) of an optional list: None and [] are false.
Truthy(l) == l.given /\ l.items # <<>>

\* output.split('{}: '.format(header)), empty fragments dropped (line 94).
QstatEntries(output, header) ==
    SelectSeq(Split(output, header \o <<":"," ">>), LAMBDA e : e # <<>>)

\* any(label + x in e for x in l) for a list l (lines 99, 100).
AnyMatch(label, l, e) ==
    \E i \in DOMAIN l.items : Contains(e, label \o l.items[i])

\* The filter's verdict on one entry (lines 99-100): iterating None raises
\* TypeError; `or` evaluates the users only when no project matches.
EntryFilter(e, projects, users) ==
    IF ~projects.given THEN "TypeError"
    ELSE IF AnyMatch(<<"p","r","o","j","e","c","t"," ","="," ">>, projects, e) THEN "keep"
    ELSE IF ~users.given THEN "TypeError"
    ELSE IF AnyMatch(<<"J","o","b","_","O","w","n","e","r"," ","="," ">>, users, e) THEN "keep"
    ELSE "drop"

\* The lines of an entry's body: v.replace('\n\t', '').split('\n') (line 102).
BodyLines(body) == Split(Replace(body, <<"\n","\t">>, <<>>), <<"\n">>)

\* Lines 102-107 on one entry: e.split('\n', 1) must give two parts and every
\* non-empty body line two parts on split('=', 1), else the unpacking raises
\* ValueError.  The key is the first line cut at its first '.'; each
\* attribute's key and value are stripped.
ParseEntry(e) ==
    LET kv == SplitOnce(e, <<"\n">>)
    IN  IF Len(kv) # 2 THEN [raised |-> TRUE, key |-> <<>>, attribs |-> <<>>]
        ELSE LET lines == SelectSeq(BodyLines(kv[2]), LAMBDA att : att # <<>>)
                 pairs == [i \in DOMAIN lines |-> SplitOnce(lines[i], <<"=">>)]
             IN  IF \E i \in DOMAIN pairs : Len(pairs[i]) # 2
                 THEN [raised |-> TRUE, key |-> <<>>, attribs |-> <<>>]
                 ELSE [raised |-> FALSE,
                       key |-> Split(kv[1], <<".">>)[1],
                       attribs |-> DictOf([i \in DOMAIN pairs |->
                                     <<Strip(pairs[i][1]), Strip(pairs[i][2])>>])]

\* Lines 94-109 on the decoded output: raised when the filter or an unpack
\* raises (the generators are consumed whole, so any entry's exception is
\* raised), else the status mapping.
ParseStatus(output, header, projects, users) ==
    LET entries   == QstatEntries(output, header)
        filtering == Truthy(projects) \/ Truthy(users)
        verdicts  == [i \in DOMAIN entries |->
                        IF filtering THEN EntryFilter(entries[i], projects, users)
                        ELSE "keep"]
        keptAt    == SelectSeq([i \in DOMAIN entries |-> i],
                               LAMBDA i : verdicts[i] = "keep")
        parsed    == [j \in DOMAIN keptAt |-> ParseEntry(entries[keptAt[j]])]
        raised    == \/ \E i \in DOMAIN entries : verdicts[i] = "TypeError"
                     \/ \E j \in DOMAIN parsed : parsed[j].raised
    IN  IF raised THEN [raised |-> TRUE, status |-> <<>>]
        ELSE [raised |-> FALSE,
              status |-> DictOf([j \in DOMAIN parsed |->
                                   <<parsed[j].key, parsed[j].attribs>>])]

(***************************************************************************)
(* Bounds and inputs                                                       *)
(***************************************************************************)

\* The most job blocks in one qstat output.
MaxBlocks == 2
\* The most seconds one attempt of the query takes (each takes at least one).
MaxAttemptTime == 3
\* The longest configured jobname.
MaxNameLen == 17
\* The most paths in one find_mounts call.
MaxPaths == 2

\* The job blocks qstat may print after "Job Id: ":
\*   1  the block of spec.md's example
\*   2  another project and owner, with a continuation line (newline + tab),
\*      a value that holds '=', and the blank line qstat -f ends a block with
\*   3  a body line without '='
\*   4  the key of block 1 under another server suffix
\*   5  a first line alone, with no newline after it
BlockText == <<
    <<"1","2","3",".","r","-","m","a","n","2","\n"," "," "," "," ","p","r","o","j","e","c","t"," ","="," ","a","b","1","2","\n"," "," "," "," ","J","o","b","_","O","w","n","e","r"," ","="," ","a","l","i","c","e","\n">>,
    <<"1","2","4",".","r","-","m","a","n","2","\n"," ","p","r","o","j","e","c","t"," ","="," ","x","y","9","9","\n"," ","R","e","s","o","u","r","c","e","_","L","i","s","t"," ","="," ","a","=","1",",","\n","\t","b","=","2","\n"," ","J","o","b","_","O","w","n","e","r"," ","="," ","b","o","b","\n","\n">>,
    <<"1","2","6",".","r","-","m","a","n","2","\n"," ","p","r","o","j","e","c","t"," ","="," ","a","b","1","2","\n"," ","j","u","n","k","\n">>,
    <<"1","2","3",".","o","t","h","e","r","\n"," ","p","r","o","j","e","c","t"," ","="," ","x","y","9","9","\n">>,
    <<"1","2","7">> >>

\* The outputs of qstat: up to MaxBlocks blocks, each a block of BlockText.
BlockSeqs == UNION {[1..n -> DOMAIN BlockText] : n \in 0..MaxBlocks}

\* What qstat prints for a sequence of blocks: "Job Id: " before each.
RECURSIVE OutputOf(_)
OutputOf(blocks) ==
    IF blocks = <<>> THEN <<>>
    ELSE <<"J","o","b"," ","I","d",":"," ">> \o BlockText[blocks[1]] \o OutputOf(Tail(blocks))

\* What one run of qstat may do: fail (a non-zero exit, an I/O or decode
\* error), or print an output.
Outcomes ==
    {[answered |-> FALSE, blocks |-> <<>>]}
        \cup {[answered |-> TRUE, blocks |-> b] : b \in BlockSeqs}

\* The filters a caller passes as projects and as users.
ProjectFilters == {NoneList, ListOf(<<<<"x","y","9","9">>>>)}
UserFilters == {NoneList, ListOf(<<<<"a","l","i","c","e">>>>)}

\* The environments the process starts in: inside a job, and bare (PBS_EXEC
\* is then first set from the configuration file).
InitialEnvs == {
    (<<"P","B","S","_","E","X","E","C">> :> <<"/","o","p","t","/","p","b","s">>) @@ (<<"P","R","O","J","E","C","T">> :> <<"a","b","1","2">>)
        @@ (<<"P","B","S","_","J","O","B","I","D">> :> <<"1","2","3",".","r","-","m","a","n","2">>),
    <<>> }

(***************************************************************************)
(* State                                                                   *)
(***************************************************************************)

VARIABLES
    env,      \* os.environ: variable name -> value
    proc,     \* "running", or "exited" once an exception left the module
    pc,       \* "ready": between calls; "qstat": in get_qstat_info's retry
              \* loop; "returned": the last call's outcome is in ret
    call,     \* the call in progress or just finished, with its arguments
    q,        \* the retry loop of get_qstat_info
    ret,      \* the outcome of the call
    modules   \* the environment modules loaded through payu.envmod

vars == <<env, proc, pc, call, q, ret, modules>>

NoCall == [op |-> "none"]
NoRetry == [elapsed |-> 0, answered |-> FALSE,
            blocks |-> <<>>, exhausted |-> FALSE]
\* An outcome: the value returned is in value (a str or a dict) or in set (a
\* set); exc and status tell of an exception.
NoRet == [kind |-> "none", value |-> <<>>, set |-> {}, exc |-> "", status |-> 0]

\* return value
Return(v) == [NoRet EXCEPT !.kind = "value", !.value = v]
\* return of a set
ReturnSet(S) == [NoRet EXCEPT !.kind = "value", !.set = S]
\* return None
ReturnNone == [NoRet EXCEPT !.kind = "None"]
\* The exit status of a process ended by sys.exit(code): code modulo 256.
ExitStatus(code) == code % 256
\* An exception other than SystemExit that nothing catches ends the
\* interpreter with status 1.
Raise(exc) == [NoRet EXCEPT !.kind = "raise", !.exc = exc, !.status = 1]
\* sys.exit(code)
SysExit(code) == [NoRet EXCEPT !.kind = "raise", !.exc = "SystemExit",
                                 !.status = ExitStatus(code)]

\* The callers of the module are outside it: an exception that leaves one of
\* its functions is taken to end the process, as the interpreter does with an
\* exception nothing catches.
ProcAfter(r) == IF r.kind = "raise" THEN "exited" ELSE "running"

Init ==
    /\ env \in InitialEnvs
    /\ proc = "running"
    /\ pc = "ready"
    /\ call = NoCall
    /\ q = NoRetry
    /\ ret = NoRet
    /\ modules = {}

(***************************************************************************)
(* get_job_id, get_qstat_info, get_job_info                                *)
(***************************************************************************)

\* get_job_id(short=True) (lines 23-34)
get_job_id(e) == Split(Get(e, <<"P","B","S","_","J","O","B","I","D">>, <<>>), <<".">>)[1]

\* Lines 86-87: the command line; os.environ['PBS_EXEC'] raises KeyError
\* when the variable is not set.
QstatCommand(e, qflag) ==
    IF <<"P","B","S","_","E","X","E","C">> \in DOMAIN e
    THEN [raised |-> FALSE, cmd |-> e[<<"P","B","S","_","E","X","E","C">>] \o <<"/","b","i","n","/","q","s","t","a","t">> \o <<" ">> \o qflag]
    ELSE [raised |-> TRUE, cmd |-> <<>>]

\* stop_after_delay(10) (line 83): the seconds of the retry budget.
StopDelay == 10
\* tenacity's stop condition, after a failed attempt.
StopAfterDelay(elapsed) == elapsed >= StopDelay
\* What tenacity does when no retry_error_callback is given: it raises
\* RetryError once the budget has run out.
RetryErrorReraise == Raise("RetryError")
\* retry_error_callback=lambda a: None (line 83)
RetryErrorCallback == ReturnNone

\* The headers the callers pass: get_qstat_info's default (line 81) and
\* get_job_info's (line 46).
Headers == {<<"J","o","b"," ","I","d">>, <<"J","o","b"," ","I","d",":">>}

\* Lines 92-107 applied to each output qstat may print, under each header
\* and filter.
ParsedOutputs ==
    [b \in BlockSeqs, h \in Headers, p \in ProjectFilters, u \in UserFilters |->
        ParseStatus(OutputOf(b), h, p, u)] @@ <<>>

\* One attempt of the body of get_qstat_info (lines 86-109).  answered: the
\* subprocess ran, exited with status 0 and its output decoded; blocks: what
\* it printed.  Without PBS_EXEC no subprocess is run.
Attempt(e, c, answered, blocks) ==
    IF QstatCommand(e, c.qflag).raised \/ ~answered
    THEN [raised |-> TRUE, status |-> <<>>]
    ELSE ParsedOutputs[blocks, c.header, c.projects, c.users]

\* What get_job_info makes of get_qstat_info's result (lines 48-56):
\* info['Job Id: <jobid>'] raises KeyError when the key is missing.
JobInfoOf(jobid, r) ==
    IF r.kind = "None" THEN ReturnNone
    ELSE LET key == <<"J","o","b"," ","I","d",":"," ">> \o jobid
         IN  IF key \in DOMAIN r.value
             THEN Return(Put(r.value[key], <<"J","o","b","_","I","D">>, jobid))
             ELSE Raise("KeyError")

\* The outcome of the call once get_qstat_info has returned r.
Finish(c, r) ==
    IF c.op = "get_job_info" THEN JobInfoOf(c.jobid, r) ELSE r

\* A caller calls get_qstat_info(qflag, header, projects, users).
GetQstatInfo ==
    /\ proc = "running" /\ pc = "ready"
    /\ \E projects \in ProjectFilters, users \in UserFilters :
          call' = [op |-> "get_qstat_info", jobid |-> <<>>, qflag |-> <<"-","f">>,
                   header |-> <<"J","o","b"," ","I","d">>, projects |-> projects, users |-> users]
    /\ pc' = "qstat"
    /\ q' = NoRetry
    /\ UNCHANGED <<env, proc, ret, modules>>

\* A caller calls get_job_info() (lines 37-56): no query for an empty job id.
GetJobInfo ==
    /\ proc = "running" /\ pc = "ready"
    /\ LET jobid == get_job_id(env)
       IN  IF jobid = <<>>
           THEN /\ call' = [op |-> "get_job_info", jobid |-> jobid, qflag |-> <<>>,
                            header |-> <<>>, projects |-> NoneList, users |-> NoneList]
                /\ pc' = "returned"
                /\ ret' = ReturnNone
           ELSE /\ call' = [op |-> "get_job_info", jobid |-> jobid,
                            qflag |-> <<"-","f","t"," ">> \o jobid, header |-> <<"J","o","b"," ","I","d",":">>,
                            projects |-> NoneList, users |-> NoneList]
                /\ pc' = "qstat"
                /\ ret' = ret
    /\ q' = NoRetry
    /\ UNCHANGED <<env, proc, modules>>

\* One attempt under @retry (line 83): a successful attempt returns its
\* status; a failed one is repeated at once, unless the budget has elapsed,
\* and then the callback's None is returned.  Any Exception is retried.
QstatAttempt ==
    /\ proc = "running" /\ pc = "qstat"
    /\ \E o \in Outcomes :
          LET a    == Attempt(env, call, o.answered, o.blocks)
              seen == [elapsed |-> 0, answered |-> o.answered, blocks |-> o.blocks,
                       exhausted |-> FALSE]
          IN  /\ QstatCommand(env, call.qflag).raised => ~o.answered
              /\ IF ~a.raised
                 THEN /\ ret' = Finish(call, Return(a.status))
                      /\ q' = seen
                      /\ pc' = "returned"
                 ELSE \E d \in 1..MaxAttemptTime :
                        IF StopAfterDelay(q.elapsed + d)
                        THEN /\ ret' = Finish(call, RetryErrorCallback)
                             /\ q' = [seen EXCEPT !.exhausted = TRUE]
                             /\ pc' = "returned"
                        ELSE /\ ret' = ret
                             /\ q' = [NoRetry EXCEPT !.elapsed = q.elapsed + d]
                             /\ pc' = "qstat"
    /\ proc' = ProcAfter(ret')
    /\ UNCHANGED <<env, call, modules>>

\* The caller takes the outcome and is ready for its next call.
NextCall ==
    /\ proc = "running" /\ pc = "returned"
    /\ pc' = "ready"
    /\ call' = NoCall
    /\ q' = NoRetry
    /\ ret' = NoRet
    /\ UNCHANGED <<env, proc, modules>>

(***************************************************************************)
(* pbs_env_init                                                            *)
(***************************************************************************)

\* The configuration file as the call finds it: missing, or its lines.
ConfFiles == {
    [exists |-> FALSE, lines |-> <<>>],
    [exists |-> TRUE,
     lines |-> << <<"P","B","S","_","E","X","E","C","=","/","o","p","t","/","p","b","s","\n">>, <<"P","B","S","_","S","E","R","V","E","R","=","r","-","m","a","n","2"," ","\n">>,
                  <<"#"," ","l","o","c","a","l"," ","s","e","t","t","i","n","g","s","\n">>, <<"P","B","S","_","S","T","A","R","T","_","M","O","M","=","a","=","b","\n">> >>] }

\* Lines 70-75: each line that splits on '=' into exactly two parts sets a
\* variable, the value rstripped; any other line is passed over.
RECURSIVE ReadConf(_, _)
ReadConf(e, lines) ==
    IF lines = <<>> THEN e
    ELSE LET parts == Split(lines[1], <<"=">>)
         IN  ReadConf(IF Len(parts) = 2 THEN Put(e, parts[1], RStrip(parts[2])) ELSE e,
                      Tail(lines))

\* A reader that would build the environment anew from the configuration
\* file, dropping what the process had.
pbs_env_init_fresh(e, conf) ==
    LET e1 == Put(<<>>, <<"P","B","S","_","C","O","N","F","_","F","I","L","E">>, <<"/","e","t","c","/","p","b","s",".","c","o","n","f">>)
    IN  IF conf.exists THEN [exited |-> FALSE, env |-> ReadConf(e1, conf.lines)]
        ELSE [exited |-> TRUE, env |-> e1]

\* pbs_env_init() (lines 59-78) on a platform other than win32: the
\* environment it leaves, and whether it ended in sys.exit(1).
pbs_env_init(e, conf) ==
    LET e1 == Put(e, <<"P","B","S","_","C","O","N","F","_","F","I","L","E">>, <<"/","e","t","c","/","p","b","s",".","c","o","n","f">>)
    IN  IF conf.exists THEN [exited |-> FALSE, env |-> ReadConf(e1, conf.lines)]
        ELSE [exited |-> TRUE, env |-> e1]

(***************************************************************************)
(* find_mounts                                                             *)
(***************************************************************************)

\* os.path.normpath on a list of components: '' and '.' dropped, '..' takes
\* the component before it away (at the root it is dropped).
RECURSIVE NormComponents(_, _)
NormComponents(done, rest) ==
    IF rest = <<>> THEN done
    ELSE IF rest[1] = <<>> \/ rest[1] = <<".">> THEN NormComponents(done, Tail(rest))
    ELSE IF rest[1] = <<".",".">>
    THEN NormComponents(SubSeq(done, 1, Len(done) - 1), Tail(rest))
    ELSE NormComponents(Append(done, rest[1]), Tail(rest))

\* The components of os.path.abspath(p) when the working directory is cwd.
AbsComponents(p, cwd) ==
    NormComponents(<<>>, IF StartsWith(p, <<"/">>) THEN Split(p, <<"/">>)
                         ELSE Split(cwd, <<"/">>) \o Split(p, <<"/">>))

\* os.path.relpath(p, start): '..' for each component of start beyond the
\* common prefix, then the rest of p; '.' when nothing is left.
RelPath(p, start, cwd) ==
    LET sl == AbsComponents(start, cwd)
        pl == AbsComponents(p, cwd)
        same == {i \in 0..Len(sl) : i <= Len(pl) /\ SubSeq(sl, 1, i) = SubSeq(pl, 1, i)}
        n  == CHOOSE i \in same : \A k \in same : k <= i
        rel == [i \in 1..(Len(sl) - n) |-> <<".",".">>] \o SubSeq(pl, n + 1, Len(pl))
    IN  IF rel = <<>> THEN <<".">> ELSE Join(rel, <<"/">>)

\* Lines 129-130: the token of path p under mount m.
StorageToken(p, m, cwd) ==
    Replace(m, <<"/">>, <<>>) \o <<"/">> \o Split(RelPath(p, m, cwd), <<"/">>)[1]

\* The sequences that enumerate a set once each: the orders in which a
\* Python set may be iterated.
Orders(S) == {o \in [1..Cardinality(S) -> S] : \A i, j \in DOMAIN o : o[i] = o[j] => i = j}

\* find_mounts(paths, mounts) (lines 112-133) when the set of mounts is
\* iterated in the order `order`: each path adds the token of the first
\* mount it starts with.  paths.list = FALSE is a path passed alone.
find_mounts(paths, order, cwd) ==
    LET ps == IF paths.list THEN paths.v ELSE <<paths.v>>
        hits(p) == {i \in DOMAIN order : StartsWith(p, order[i])}
        first(p) == order[CHOOSE i \in hits(p) : \A k \in hits(p) : i <= k]
    IN  {StorageToken(ps[j], first(ps[j]), cwd) : j \in {k \in DOMAIN ps : hits(ps[k]) # {}}}

\* The working directory when nothing else is said.
HomeDir == <<"/","h","o","m","e","/","u","/","e","x","p","1">>

PathPool == { <<"/","s","c","r","a","t","c","h","/","a","b","1","2","/","f","i","l","e">>, <<"/","g","/","d","a","t","a","/","x","y","9","9","/","f">>, <<"/","s","c","r","a","t","c","h","y","/","a","b","1","2">>,
              <<"/","h","o","m","e","/","u","/","f">>, <<"/","s","c","r","a","t","c","h">> }
PathArgs ==
    {[list |-> TRUE, v |-> l] : l \in UNION {[1..n -> PathPool] : n \in 0..MaxPaths}}
        \cup {[list |-> FALSE, v |-> p] : p \in PathPool}
MountArgs == { {<<"/","s","c","r","a","t","c","h">>}, {<<"/","s","c","r","a","t","c","h">>, <<"/","g","/","d","a","t","a">>}, {<<"/","g">>, <<"/","g","/","d","a","t","a">>} }

\* A caller calls find_mounts(paths, mounts).
FindMounts ==
    /\ proc = "running" /\ pc = "ready"
    /\ \E paths \in PathArgs, mounts \in MountArgs :
         \E order \in Orders(mounts) :
            /\ call' = [op |-> "find_mounts", paths |-> paths, mounts |-> mounts,
                        order |-> order]
            /\ ret' = ReturnSet(find_mounts(paths, order, HomeDir))
    /\ pc' = "returned"
    /\ UNCHANGED <<env, proc, q, modules>>

\* A caller calls pbs_env_init().
PbsEnvInit ==
    /\ proc = "running" /\ pc = "ready"
    /\ \E conf \in ConfFiles :
          LET r == pbs_env_init(env, conf)
          IN  /\ call' = [op |-> "pbs_env_init", in |-> [conf |-> conf]]
              /\ env' = r.env
              /\ ret' = IF r.exited THEN SysExit(1) ELSE ReturnNone
    /\ proc' = ProcAfter(ret')
    /\ pc' = "returned"
    /\ UNCHANGED <<q, modules>>

(***************************************************************************)
(* generate_command                                                        *)
(***************************************************************************)

\* PBSPro's jobname limit (line 168).
JobnameLimit == 15

\* sys.executable and sys.argv[0]
SysExecutable == <<"/","u","s","r","/","b","i","n","/","p","y","t","h","o","n">>
Argv0 == <<"/","o","p","t","/","p","a","y","u","/","b","i","n","/","p","a","y","u">>

\* os.path.basename(p): what follows the last '/'.
Basename(p) == LET parts == Split(p, <<"/">>) IN parts[Len(parts)]

\* os.path.dirname(p): what precedes the last '/', without trailing '/'
\* unless it is the root.
Dirname(p) ==
    LET parts == Split(p, <<"/">>)
        head  == Join(SubSeq(parts, 1, Len(parts) - 1), <<"/">>)
    IN  IF Len(parts) = 1 THEN <<>>
        ELSE IF head = <<>> THEN <<"/">>
        ELSE head

\* os.path.join(a, b)
PathJoin(a, b) ==
    IF StartsWith(b, <<"/">>) THEN b
    ELSE IF a = <<>> \/ a[Len(a)] = "/" THEN a \o b
    ELSE a \o <<"/">> \o b

\* A job configuration maps an option to its value; an option that is not
\* set is not in its domain.  storage and pbs_vars are dicts in insertion
\* order: sequences of <<key, value>>.
FullConfig ==
    ("queue" :> <<"e","x","p","r","e","s","s">>) @@ ("project" :> <<"x","y","9","9">>)
        @@ ("walltime" :> <<"1",":","0","0",":","0","0">>) @@ ("ncpus" :> <<"4">>) @@ ("mem" :> <<>>)
        @@ ("jobfs" :> <<"1","G","B">>) @@ ("priority" :> <<"1","0">>)
        @@ ("qsub_flags" :> <<"-","W"," ","u","m","a","s","k","=","0","2","7">>)
BaseConfigs == {<<>>, FullConfig}

LongName == <<"e","x","p","e","r","i","m","e","n","t","_","0","1","2","3","4","5","6","7","8","9","_","a","b","c","d","e","f">>
\* A jobname of each length up to MaxNameLen, or none and a working directory.
NameSettings ==
    {[config |-> ("jobname" :> Slice(LongName, n)), cwd |-> HomeDir] : n \in 0..MaxNameLen}
        \cup {[config |-> <<>>, cwd |-> d] :
                d \in {HomeDir, <<"/","s","c","r","a","t","c","h","/","a","b","1","2","/","a","_","l","o","n","g","_","e","x","p","e","r","i","m","e","n","t","_","d","i","r">>, <<"/">>}}
JoinSettings ==
    {<<>>} \cup {("join" :> j) : j \in {<<"o","e">>, <<"e","o">>, <<"n">>, <<"x","x">>}}
StorageSettings ==
    {<<>>} \cup {("storage" :> s) :
                   s \in { <<>>,
                           << <<<<"/","g","/","d","a","t","a">>, <<<<"a","b","1","2">>>>>> >>,
                           << <<<<"a","b">>, <<<<"a","b","1","2">>>>>> >> }}
\* The script, pbs_vars (given = FALSE: None) and whether the joined script
\* path is a file.
ScriptSettings == {
    [script |-> <<"/","g","/","d","a","t","a","/","x","y","9","9","/","r","u","n",".","p","y">>, vars |-> NoneList, isfile |-> TRUE],
    [script |-> <<"r","u","n",".","p","y">>, isfile |-> TRUE,
     vars |-> ListOf(<< <<<<"P","A","Y","U","_","P","A","T","H">>, <<"/","g","/","d","a","t","a","/","x","y","9","9","/","b","i","n">>>>, <<<<"N">>, <<"1">>>> >>)],
    [script |-> <<"r","u","n",".","p","y">>, vars |-> NoneList, isfile |-> FALSE] }

\* Lines 155-162: one -l flag for each resource whose value is true.
ResourceFlags(config) ==
    LET keys == << "walltime", "ncpus", "mem", "jobfs" >>
        name == ("walltime" :> <<"w","a","l","l","t","i","m","e">>) @@ ("ncpus" :> <<"n","c","p","u","s">>)
                   @@ ("mem" :> <<"m","e","m">>) @@ ("jobfs" :> <<"j","o","b","f","s">>)
        set  == SelectSeq(keys, LAMBDA k : Get(config, k, <<>>) # <<>>)
    IN  [i \in DOMAIN set |-> <<"-","l"," ">> \o name[set[i]] \o <<"=">> \o config[set[i]]]

\* The -N flag without the cut of line 168.
NameFlagUncut(config, cwd) ==
    LET pbs_jobname == Get(config, "jobname", Basename(cwd))
    IN  IF pbs_jobname # <<>> THEN << <<"-","N"," ">> \o pbs_jobname >> ELSE <<>>

\* Lines 165-168: the -N flag, the name cut to the limit; none for an empty
\* name.
NameFlag(config, cwd) ==
    LET pbs_jobname == Get(config, "jobname", Basename(cwd))
    IN  IF pbs_jobname # <<>>
        THEN << <<"-","N"," ">> \o Slice(pbs_jobname, JobnameLimit) >>
        ELSE <<>>

\* Line 177: the join modes qsub knows.
JoinModes == {<<"o","e">>, <<"e","o">>, <<"n">>}
\* A builder that would take any join mode.
JoinAnyMode(pbs_join) == TRUE
JoinIsValid(pbs_join) == pbs_join \in JoinModes

\* Lines 185-187: -v and the variables, comma separated.
VarsFlag(pbs_vars) ==
    << <<"-","v"," ">> \o Join([i \in DOMAIN pbs_vars |->
                          pbs_vars[i][1] \o <<"=">> \o pbs_vars[i][2]], <<",">>) >>

\* Lines 192-196: the loop is over the dict itself, that is over its keys,
\* and unpacks each key into (mount, projects): a key that is not two
\* characters long raises ValueError; of a two-character key the first
\* character is the mount and the second the only project.
StorageLoop(storage_config) ==
    IF \E i \in DOMAIN storage_config : Len(storage_config[i][1]) # 2
    THEN [raised |-> TRUE, storages |-> {}]
    ELSE [raised |-> FALSE,
          storages |-> {<<storage_config[i][1][1]>> \o <<"/">> \o <<storage_config[i][1][2]>> :
                          i \in DOMAIN storage_config}]

\* Lines 198-200: the storage flag, when there is a token.
StorageFlag(tokens) ==
    IF Join(tokens, <<"+">>) # <<>>
    THEN << <<"-","l"," ","s","t","o","r","a","g","e","=">> \o Join(tokens, <<"+">>) >>
    ELSE <<>>

\* Lines 203-205
ExtraFlags(config) ==
    IF Get(config, "qsub_flags", <<>>) # <<>> THEN <<config["qsub_flags"]>> ELSE <<>>

\* Lines 207-213: a relative script is joined to PAYU_PATH, or to the
\* directory of argv[0].
ScriptPath(pbs_script, pbs_vars) ==
    IF StartsWith(pbs_script, <<"/">>) THEN pbs_script
    ELSE LET d == DictOf(pbs_vars)
         IN  PathJoin(Get(d, <<"P","A","Y","U","_","P","A","T","H">>, Dirname(Argv0)), pbs_script)

\* generate_command(pbs_script, pbs_config, pbs_vars) (lines 136-230), with
\* the configuration file, the working directory and the file test as the
\* call finds them, and `tokens` the order in which the set of storage
\* tokens is joined.  The tokens that line 217 adds to storages come after
\* the flag is built and are not read again.
generate_command(e, mods, in, tokens) ==
    LET init    == pbs_env_init(e, in.conf)
        config  == in.config
        pbs_vars == IF in.vars.given THEN in.vars.items ELSE <<>>
        upToWd  == << <<"-","q"," ">> \o Get(config, "queue", <<"n","o","r","m","a","l">>),
                      <<"-","P"," ">> \o Get(config, "project", init.env[<<"P","R","O","J","E","C","T">>]) >>
                      \o ResourceFlags(config)
                      \o NameFlag(config, in.cwd)
                      \o (IF Get(config, "priority", <<>>) # <<>>
                          THEN << <<"-","p"," ">> \o config["priority"] >> ELSE <<>>)
                      \o << <<"-","l"," ","w","d">> >>
        pbs_join == Get(config, "join", <<"n">>)
        loop    == StorageLoop(Get(config, "storage", <<>>))
        pbs_flags == upToWd \o << <<"-","j"," ">> \o pbs_join >> \o VarsFlag(pbs_vars)
                       \o StorageFlag(tokens) \o ExtraFlags(config)
        script  == ScriptPath(in.script, pbs_vars)
        stop(r) == [ret |-> r, env |-> init.env, modules |-> mods, flags |-> <<>>]
    IN  IF init.exited THEN stop(SysExit(1))
        ELSE IF <<"P","R","O","J","E","C","T">> \notin DOMAIN init.env THEN stop(Raise("KeyError"))
        ELSE IF ~JoinIsValid(pbs_join) THEN stop(SysExit(-1))
        ELSE IF loop.raised THEN stop(Raise("ValueError"))
        ELSE IF ~StartsWith(in.script, <<"/">>) /\ ~in.isfile
        THEN stop(Raise("AssertionError"))
        ELSE [ret |-> Return(<<"q","s","u","b"," ">> \o Join(pbs_flags, <<" ">>) \o <<" ","-","-"," ">>
                               \o SysExecutable \o <<" ">> \o script),
              env |-> init.env,
              modules |-> mods \cup {"pbs"},
              flags |-> pbs_flags]

\* The calls of generate_command.
CommandInputs ==
    {[config |-> b @@ n.config @@ j @@ s, cwd |-> n.cwd, conf |-> c,
      script |-> x.script, vars |-> x.vars, isfile |-> x.isfile] :
        b \in BaseConfigs, n \in NameSettings, j \in JoinSettings,
        s \in StorageSettings, x \in ScriptSettings, c \in ConfFiles}

\* A caller calls generate_command(pbs_script, pbs_config, pbs_vars).
GenerateCommand ==
    /\ proc = "running" /\ pc = "ready"
    /\ \E in \in CommandInputs :
         \E tokens \in Orders(StorageLoop(Get(in.config, "storage", <<>>)).storages) :
            LET r == generate_command(env, modules, in, tokens)
            IN  /\ call' = [op |-> "generate_command", in |-> in, flags |-> r.flags]
                /\ ret' = r.ret
                /\ env' = r.env
                /\ modules' = r.modules
    /\ proc' = ProcAfter(ret')
    /\ pc' = "returned"
    /\ UNCHANGED q

Next ==
    \/ GetQstatInfo
    \/ GetJobInfo
    \/ QstatAttempt
    \/ FindMounts
    \/ PbsEnvInit
    \/ GenerateCommand
    \/ NextCall

Spec == Init /\ [][Next]_vars

\* The status fetcher with the configuration reader, on their own: the
\* calls of get_qstat_info and get_job_info do not depend on the others.
\* The retry loop runs to its end: an attempt (a blocking call that ends) is
\* followed at once by the next attempt or by the return.  Every attempt
\* changes pc or the seconds elapsed.
FetchNext ==
    \/ GetQstatInfo
    \/ GetJobInfo
    \/ QstatAttempt
    \/ PbsEnvInit
    \/ NextCall

FetchSpec == Init /\ [][FetchNext]_vars /\ WF_<<pc, q>>(QstatAttempt)

(***************************************************************************)
(* The claims of spec.md                                                   *)
(***************************************************************************)

\* What spec.md says of each block of BlockText: its key, its attributes
\* (a body line without '=' passed over, section 4.2), its project and owner.
BlockKeyOf == << <<"1","2","3">>, <<"1","2","4">>, <<"1","2","6">>, <<"1","2","3">>, <<"1","2","7">> >>
BlockAttribsOf == <<
    (<<"p","r","o","j","e","c","t">> :> <<"a","b","1","2">>) @@ (<<"J","o","b","_","O","w","n","e","r">> :> <<"a","l","i","c","e">>),
    (<<"p","r","o","j","e","c","t">> :> <<"x","y","9","9">>) @@ (<<"R","e","s","o","u","r","c","e","_","L","i","s","t">> :> <<"a","=","1",",","b","=","2">>)
        @@ (<<"J","o","b","_","O","w","n","e","r">> :> <<"b","o","b">>),
    (<<"p","r","o","j","e","c","t">> :> <<"a","b","1","2">>),
    (<<"p","r","o","j","e","c","t">> :> <<"x","y","9","9">>),
    <<>> >>
BlockOwnerOf == << <<"a","l","i","c","e">>, <<"b","o","b">>, <<>>, <<>>, <<>> >>

DistinctKeys(blocks) ==
    \A i, j \in DOMAIN blocks : BlockKeyOf[blocks[i]] = BlockKeyOf[blocks[j]] => i = j

\* The mapping spec.md describes for the blocks at the positions `kept`.
StatusOf(blocks, kept) ==
    [k \in {BlockKeyOf[blocks[i]] : i \in kept} |->
        BlockAttribsOf[blocks[CHOOSE i \in kept : BlockKeyOf[blocks[i]] = k]]]

QstatReturned == pc = "returned" /\ call.op = "get_qstat_info"
Unfiltered == ~Truthy(call.projects) /\ ~Truthy(call.users)

\* C1: without filters, get_qstat_info returns a mapping with one entry per
\* block of the output, keyed by the block's first line cut at its first '.',
\* holding the block's attributes.  (Stated for outputs whose blocks have
\* different keys.)
C1_OneEntryPerBlock ==
    (QstatReturned /\ Unfiltered /\ q.answered /\ DistinctKeys(q.blocks))
        => /\ ret.kind = "value"
           /\ Cardinality(DOMAIN ret.value) = Len(q.blocks)
           /\ ret.value = StatusOf(q.blocks, DOMAIN q.blocks)

\* C2: with a projects or a users filter (or both), get_qstat_info returns a
\* mapping holding exactly the blocks that name one of the projects or one of
\* the users.  (Stated for outputs of well-formed blocks with different keys.)
C2_FilterKeepsMatches ==
    (/\ QstatReturned /\ ~Unfiltered /\ q.answered /\ DistinctKeys(q.blocks)
     /\ \A i \in DOMAIN q.blocks : q.blocks[i] \in {1, 2})
        => /\ ret.kind = "value"
           /\ ret.value =
                StatusOf(q.blocks,
                    {i \in DOMAIN q.blocks :
                        \/ \E k \in DOMAIN call.projects.items :
                              call.projects.items[k] = BlockAttribsOf[q.blocks[i]][<<"p","r","o","j","e","c","t">>]
                        \/ \E k \in DOMAIN call.users.items :
                              call.users.items[k] = BlockOwnerOf[q.blocks[i]]})

\* C3: get_qstat_info never raises; it starts no attempt once the 10 seconds
\* have elapsed; when the budget runs out on a failed attempt it returns
\* None, and only then; when an attempt succeeds that attempt's mapping is
\* returned; and every call returns.
C3_Safety ==
    /\ pc = "qstat" => q.elapsed < 10
    /\ QstatReturned =>
          /\ ret.kind \in {"value", "None"}
          /\ q.exhausted <=> ret.kind = "None"
          /\ ~q.exhausted =>
                /\ q.answered /\ <<"P","B","S","_","E","X","E","C">> \in DOMAIN env
                /\ ret.value = ParseStatus(OutputOf(q.blocks), call.header,
                                           call.projects, call.users).status
C3_RetryEndsInNone == []C3_Safety /\ ((pc = "qstat") ~> (pc = "returned"))

\* C3's case: the query failed until the budget ran out, and None came back.
C3_Witness ==
    QstatReturned /\ q.exhausted /\ ~q.answered /\ ret.kind = "None"

\* C4 (as spec.md states it): when generate_command gets as far as the
\* storage configuration, a configured mapping of mounts to projects gives a
\* command with a single -l storage= flag of one token per (mount, project)
\* pair, "/g/data" and "ab12" giving "g/data/ab12"; no flag without storage.
TrimSeparators(m) ==
    LET keep == {i \in DOMAIN m : m[i] # "/"}
    IN  IF keep = {} THEN <<>>
        ELSE SubSeq(m, (CHOOSE i \in keep : \A k \in keep : i <= k),
                       (CHOOSE i \in keep : \A k \in keep : k <= i))
PairTokens(storage) ==
    UNION {{TrimSeparators(storage[i][1]) \o <<"/">> \o storage[i][2][j] :
               j \in DOMAIN storage[i][2]} : i \in DOMAIN storage}
CommandReturned == pc = "returned" /\ call.op = "generate_command"
ReachesStorage ==
    /\ CommandReturned /\ call.in.conf.exists /\ <<"P","R","O","J","E","C","T">> \in DOMAIN env
    /\ JoinIsValid(Get(call.in.config, "join", <<"n">>))
    /\ (StartsWith(call.in.script, <<"/">>) \/ call.in.isfile)
C4_StorageFlag ==
    ReachesStorage =>
        LET storage == Get(call.in.config, "storage", <<>>)
            at == {i \in DOMAIN call.flags : StartsWith(call.flags[i], <<"-","l"," ","s","t","o","r","a","g","e","=">>)}
        IN  /\ ret.kind = "value"
            /\ PairTokens(storage) = {} => at = {}
            /\ PairTokens(storage) # {} =>
                  /\ Cardinality(at) = 1
                  /\ \A i \in at :
                        LET tokens == Split(SubSeq(call.flags[i], Len(<<"-","l"," ","s","t","o","r","a","g","e","=">>) + 1,
                                                   Len(call.flags[i])), <<"+">>)
                        IN  /\ Len(tokens) = Cardinality(PairTokens(storage))
                            /\ {tokens[k] : k \in DOMAIN tokens} = PairTokens(storage)

\* C5 (as spec.md states it): each path adds at most one token; a path that
\* starts with no mount adds none, and a path that starts with a mount adds
\* that mount without its separators, '/', and the first path segment after
\* the mount, for one of the mounts it starts with.  (A path that is itself
\* a mount has no segment after it: the statement is about the other calls.)
SegmentAfter(p, m) ==
    LET rest == SubSeq(p, Len(m) + 1, Len(p))
        from == {i \in DOMAIN rest : rest[i] # "/"}
    IN  IF from = {} THEN <<>>
        ELSE Split(SubSeq(rest, (CHOOSE i \in from : \A k \in from : i <= k), Len(rest)),
                   <<"/">>)[1]
TokenAfter(p, m) == SelectSeq(m, LAMBDA ch : ch # "/") \o <<"/">> \o SegmentAfter(p, m)
C5_FirstSegmentAfterMount ==
    (pc = "returned" /\ call.op = "find_mounts") =>
        LET ps == IF call.paths.list THEN call.paths.v ELSE <<call.paths.v>>
            under(p) == {m \in call.mounts : StartsWith(p, m)}
            hit == {i \in DOMAIN ps : under(ps[i]) # {}}
        IN  (\A i \in DOMAIN ps : ps[i] \notin call.mounts) =>
            /\ \A i \in hit : \E m \in under(ps[i]) : TokenAfter(ps[i], m) \in ret.set
            /\ \A t \in ret.set :
                  \E i \in hit : \E m \in under(ps[i]) : t = TokenAfter(ps[i], m)
            /\ Cardinality(ret.set) <= Cardinality(hit)

\* C6: a body line without '=' is passed over: the call still returns the
\* mapping, with the block's well-formed attributes and every other block.
C6_LineWithoutEqualsSkipped ==
    (/\ QstatReturned /\ Unfiltered /\ q.answered /\ DistinctKeys(q.blocks)
     /\ \E i \in DOMAIN q.blocks : q.blocks[i] = 3
     /\ \A i \in DOMAIN q.blocks : q.blocks[i] \in {1, 2, 3})
        => /\ ret.kind = "value"
           /\ ret.value = StatusOf(q.blocks, DOMAIN q.blocks)

\* C7: get_job_info yields None, and does not raise, when the query
\* succeeds with no block for the job id, when the job id is empty (and then
\* without a query), and when the query yields None.
C7_NoBlockNoResult ==
    (pc = "returned" /\ call.op = "get_job_info") =>
        /\ ret.kind # "raise"
        /\ call.jobid = <<>> => ret.kind = "None" /\ ~q.answered /\ ~q.exhausted
        /\ q.exhausted => ret.kind = "None"
        /\ (/\ call.jobid # <<>> /\ ~q.exhausted
            /\ \A i \in DOMAIN q.blocks : BlockKeyOf[q.blocks[i]] # call.jobid)
              => ret.kind = "None"

\* C8 (as spec.md states it): the environment is written once at startup
\* and only read afterwards: a call to generate_command leaves it unchanged.
C8_CommandLeavesEnv ==
    [][(pc = "ready" /\ call'.op = "generate_command") => env' = env]_vars

\* The variables pbs_env_init may write: PBS_CONF_FILE, and what stands
\* before the '=' of a configuration line with a single '='.
ConfNames(conf) ==
    {<<"P","B","S","_","C","O","N","F","_","F","I","L","E">>}
        \cup {SubSeq(conf.lines[i], 1, Find(conf.lines[i], <<"=">>, 1) - 1) :
                i \in {k \in DOMAIN conf.lines :
                         Len(SelectSeq(conf.lines[k], LAMBDA ch : ch = "=")) = 1}}

\* C8, amended: only pbs_env_init writes the environment, and
\* generate_command runs it on every call: such a call sets PBS_CONF_FILE
\* and the variables of the configuration file's lines, and leaves every
\* other variable as it was; get_qstat_info, get_job_info and find_mounts
\* leave the whole environment unchanged, and only a generate_command that
\* returns a command loads a module.
C8_OnlyEnvInitWrites ==
    [][/\ call'.op \in {"generate_command", "pbs_env_init"} /\ pc = "ready" =>
            /\ DOMAIN env \subseteq DOMAIN env'
            /\ \A n \in DOMAIN env' :
                  n \in ConfNames(call'.in.conf)
                    \/ (n \in DOMAIN env /\ env'[n] = env[n])
            /\ <<"P","B","S","_","C","O","N","F","_","F","I","L","E">> \in DOMAIN env'
       /\ ~(call'.op \in {"generate_command", "pbs_env_init"} /\ pc = "ready") =>
            env' = env
       /\ modules' # modules =>
            call'.op = "generate_command" /\ ret'.kind = "value"
      ]_vars

\* C8's case: generate_command has returned a command and has written the
\* configuration file's variables into an environment that had none.
C8_Witness ==
    /\ CommandReturned /\ ret.kind = "value" /\ modules = {"pbs"}
    /\ <<"P","B","S","_","S","E","R","V","E","R">> \in DOMAIN env /\ <<"P","B","S","_","C","O","N","F","_","F","I","L","E">> \in DOMAIN env

\* C9: the -N value of a returned command is at most 15 characters: the
\* first 15 of a longer name, a shorter name unchanged; the name is the
\* configured jobname, or the base name of the working directory; an empty
\* name gives no -N flag.
NameOf(in) ==
    IF "jobname" \in DOMAIN in.config THEN in.config["jobname"]
    ELSE LET slashes == {i \in DOMAIN in.cwd : in.cwd[i] = "/"}
         IN  SubSeq(in.cwd, (CHOOSE i \in slashes : \A k \in slashes : k <= i) + 1,
                    Len(in.cwd))
C9_NameAtMost15 ==
    (CommandReturned /\ ret.kind = "value") =>
        LET name == NameOf(call.in)
            at == {i \in DOMAIN call.flags : StartsWith(call.flags[i], <<"-","N"," ">>)}
        IN  /\ name = <<>> => at = {}
            /\ name # <<>> =>
                  /\ Cardinality(at) = 1
                  /\ \A i \in at :
                        LET value == SubSeq(call.flags[i], 4, Len(call.flags[i]))
                        IN  /\ Len(value) <= 15
                            /\ Len(name) > 15 => value = SubSeq(name, 1, 15)
                            /\ Len(name) <= 15 => value = name
                            /\ Contains(ret.value, <<" ","-","N"," ">> \o value \o <<" ">>)

\* C9's case: a command was returned for a jobname longer than 15.
C9_Witness ==
    /\ CommandReturned /\ ret.kind = "value"
    /\ "jobname" \in DOMAIN call.in.config /\ Len(call.in.config["jobname"]) > 15

\* C10: a join mode other than oe, eo and n ends the process with a
\* non-zero status and no command (status 255, from sys.exit(-1), when the
\* call gets as far as the mode); a returned command has exactly one -j flag,
\* with the mode (n when unset), after -l wd and before -v.
C10_JoinMode ==
    CommandReturned =>
        LET mode == Get(call.in.config, "join", <<"n">>)
            at == {i \in DOMAIN call.flags : StartsWith(call.flags[i], <<"-","j"," ">>)}
        IN  /\ mode \notin {<<"o","e">>, <<"e","o">>, <<"n">>} =>
                  /\ ret.kind = "raise" /\ ret.status # 0 /\ proc = "exited"
                  /\ (call.in.conf.exists /\ <<"P","R","O","J","E","C","T">> \in DOMAIN env) =>
                        ret.exc = "SystemExit" /\ ret.status = 255
            /\ ret.kind = "value" =>
                  /\ Cardinality(at) = 1
                  /\ \A i \in at :
                        /\ call.flags[i] = <<"-","j"," ">> \o mode
                        /\ \E w \in 1..(i - 1) : call.flags[w] = <<"-","l"," ","w","d">>
                        /\ \E v \in (i + 1)..Len(call.flags) :
                              StartsWith(call.flags[v], <<"-","v"," ">>)

\* C10's case: the call got as far as the join mode "xx" and exited.
C10_Witness ==
    /\ CommandReturned /\ Get(call.in.config, "join", <<"n">>) = <<"x","x">>
    /\ ret.exc = "SystemExit" /\ ret.status = 255 /\ proc = "exited"

====
